---- MODULE Spec2Model ----
(***************************************************************************)
(* Model of the skip-linked-list container (src/src/list.rs and its        *)
(* Option-returning twin src/src/skip_linked_list.rs).                     *)
(*                                                                         *)
(* The heap is a function from node ids to node records; a Box<Node> or a  *)
(* NonNull<Node> is a node id, None is 0.  A freed node has kind "free".   *)
(* Every operation of the container is an operator on a list record        *)
(* [heap, entry, size] that follows the Rust code statement by statement,  *)
(* and an action that applies the operator to the state.                   *)
(***************************************************************************)
EXTENDS Integers, Sequences, FiniteSets, TLC

(* ------------------------------ bounds --------------------------------- *)
MaxSize == 3
MaxLanes == 3
MaxElem == 2

Elems == 1..MaxElem
NodeIds == 1..((MaxSize + 1) * MaxLanes + 3)
\* The coins of one insert, in the order they are drawn (lane 1 first).  A draw
\* made after the first tails is discarded by the `_ => None` arms, so a tape is
\* told by its number of leading heads.
Coins == {[j \in 1..MaxLanes |-> j <= k] : k \in 0..MaxLanes}
Indexes == 0..(MaxSize + 1)

VARIABLES
    variant,   \* "list" = src/src/list.rs, "cli" = src/src/skip_linked_list.rs
    heap,      \* node id -> node
    entry,     \* SkipLinkedList::entry, the top sentinel
    size,      \* SkipLinkedList::size
    arr,       \* the Vec the tests run next to the list
    net,       \* successful inserts minus successful removals
    iter,      \* the Iter cursor, when one is alive
    last       \* the last call and what it returned

vars == <<variant, heap, entry, size, arr, net, iter, last>>

(* ------------------------------ nodes ---------------------------------- *)
FreeNode == [kind |-> "free", right |-> 0, down |-> 0, delta |-> 0, elem |-> 0]

Sentinel(r, d, dl) == [kind |-> "S", right |-> r, down |-> d, delta |-> dl, elem |-> 0]

Index(r, d, dl) == [kind |-> "I", right |-> r, down |-> d, delta |-> dl, elem |-> 0]

Content(r, e) == [kind |-> "C", right |-> r, down |-> 0, delta |-> 0, elem |-> e]

\* Box::new: the allocator hands out the lowest free address
Alloc(h) == CHOOSE n \in NodeIds : h[n].kind = "free" /\ \A m \in 1..(n - 1) : h[m].kind # "free"

\* Node::delta
delta(h, n) == IF h[n].kind = "C" THEN 1 ELSE h[n].delta

\* the result of a Node-level call
Res(h, ret, err, used) == [heap |-> h, ret |-> ret, err |-> err, used |-> used]

(* ------------------------------ insert --------------------------------- *)
\* Node::insert_content_after
insert_content_after(h, n, elem) ==
    LET new == Alloc(h)
        h1 == [h EXCEPT ![new] = Content(h[n].right, elem)]
    IN Res([h1 EXCEPT ![n].right = new], new, "none", 0)

\* insert_index_after splitting the span the predecessor had before insert_at
\* added 1 to it
insert_index_after_old_span(h, n, i, next_level_inserted, used) ==
    LET d == delta(h, n) - 1
        new == Alloc(h)
        h1 == [h EXCEPT ![new] = Index(h[n].right, next_level_inserted, d - i)]
    IN IF d < i THEN Res(h, 0, "underflow", used)
       ELSE Res([h1 EXCEPT ![n].right = new, ![n].delta = i], new, "none", used)

\* insert_index_after giving the new index the down link of its predecessor
insert_index_after_down_pred(h, n, i, next_level_inserted, used) ==
    LET d == delta(h, n)
        new == Alloc(h)
        h1 == [h EXCEPT ![new] = Index(h[n].right, h[n].down, d - i)]
    IN IF d < i THEN Res(h, 0, "underflow", used)
       ELSE Res([h1 EXCEPT ![n].right = new, ![n].delta = i], new, "none", used)

\* insert_index_after without `*self.delta_mut().unwrap() = i`
insert_index_after_keep(h, n, i, next_level_inserted, used) ==
    LET d == delta(h, n)
        new == Alloc(h)
        h1 == [h EXCEPT ![new] = Index(h[n].right, next_level_inserted, d - i)]
    IN IF d < i THEN Res(h, 0, "underflow", used)
       ELSE Res([h1 EXCEPT ![n].right = new], new, "none", used)

\* Node::insert_index_after
insert_index_after(h, n, i, next_level_inserted, used) ==
    LET d == delta(h, n)
        new == Alloc(h)
        h1 == [h EXCEPT ![new] = Index(h[n].right, next_level_inserted, d - i)]
    IN IF d < i THEN Res(h, 0, "underflow", used)
       ELSE Res([h1 EXCEPT ![n].right = new, ![n].delta = i], new, "none", used)

RECURSIVE Node_insert(_, _, _, _, _)
RECURSIVE insert_at(_, _, _, _, _)

\* insert_at without `*delta += 1`
insert_at_no_inc(h, n, i, elem, coins) ==
    IF h[n].kind = "C" \/ (h[n].kind = "S" /\ h[n].down = 0)
    THEN insert_content_after(h, n, elem)
    ELSE IF h[n].kind = "I" /\ h[h[n].down].kind = "free"
    THEN Res(h, 0, "dangling", 0)
    ELSE LET r == Node_insert(h, h[n].down, i, elem, coins)
             coin == coins[r.used + 1]
         IN IF r.err # "none" THEN r
            ELSE IF r.ret # 0 /\ coin
            THEN insert_index_after(r.heap, n, i, r.ret, r.used + 1)
            ELSE Res(r.heap, 0, "none", r.used + 1)

\* Node::insert_at
insert_at(h, n, i, elem, coins) ==
    IF h[n].kind = "C" \/ (h[n].kind = "S" /\ h[n].down = 0)
    THEN insert_content_after(h, n, elem)
    ELSE IF h[n].kind = "I" /\ h[h[n].down].kind = "free"
    THEN Res([h EXCEPT ![n].delta = @ + 1], 0, "dangling", 0)
    ELSE LET h1 == [h EXCEPT ![n].delta = @ + 1]
             r == Node_insert(h1, h[n].down, i, elem, coins)
             coin == coins[r.used + 1]
         IN IF r.err # "none" THEN r
            ELSE IF r.ret # 0 /\ coin
            THEN insert_index_after(r.heap, n, i, r.ret, r.used + 1)
            ELSE Res(r.heap, 0, "none", r.used + 1)

\* Node::insert walking with `node.delta() <= i`
Node_insert_le(h, node, i, elem, coins) ==
    IF delta(h, node) <= i
    THEN IF h[node].right = 0 THEN Res(h, 0, "unwrap", 0)
         ELSE Node_insert(h, h[node].right, i - delta(h, node), elem, coins)
    ELSE insert_at(h, node, i, elem, coins)

\* Node::insert
Node_insert(h, node, i, elem, coins) ==
    IF delta(h, node) < i
    THEN IF h[node].right = 0 THEN Res(h, 0, "unwrap", 0)
         ELSE Node_insert(h, h[node].right, i - delta(h, node), elem, coins)
    ELSE insert_at(h, node, i, elem, coins)

\* the result of a call on the container
LRes(L, some, ret, err, panic) == [list |-> L, some |-> some, ret |-> ret, err |-> err, panic |-> panic]

\* SkipLinkedList::new
new == [heap |-> [n \in NodeIds |-> IF n = 1 THEN Sentinel(0, 0, 1) ELSE FreeNode], entry |-> 1, size |-> 0]

\* the tower growth without the new index: the new sentinel links to raw_node
grow_no_index(h, e, i, sz, raw_node) ==
    LET ns == Alloc(h)
        h2 == [h EXCEPT ![ns] = Sentinel(raw_node, e, i)]
    IN [heap |-> h2, entry |-> ns, size |-> sz]

\* the tower growth linking the new index to the right neighbour of the old entry
grow_keep_right(h, e, i, sz, raw_node) ==
    LET ni == Alloc(h)
        h1 == [h EXCEPT ![ni] = Index(h[e].right, raw_node, sz - i + 1)]
        ns == Alloc(h1)
        h2 == [h1 EXCEPT ![ns] = Sentinel(ni, e, i)]
    IN [heap |-> h2, entry |-> ns, size |-> sz]

\* the tower growth giving the new index the span `self.size - i`
grow_short(h, e, i, sz, raw_node) ==
    LET ni == Alloc(h)
        h1 == [h EXCEPT ![ni] = Index(0, raw_node, sz - i)]
        ns == Alloc(h1)
        h2 == [h1 EXCEPT ![ns] = Sentinel(ni, e, i)]
    IN [heap |-> h2, entry |-> ns, size |-> sz]

\* the tower growth of SkipLinkedList::insert
grow(h, e, i, sz, raw_node) ==
    LET ni == Alloc(h)
        h1 == [h EXCEPT ![ni] = Index(0, raw_node, sz - i + 1)]
        ns == Alloc(h1)
        h2 == [h1 EXCEPT ![ns] = Sentinel(ni, e, i)]
    IN [heap |-> h2, entry |-> ns, size |-> sz]

\* insert growing the tower whenever the top lane promoted, without the coin
insert_grow_eager(var, L, idx, elem, coins) ==
    IF idx > L.size THEN LRes(L, FALSE, 0, "OutOfRange", var = "list")
    ELSE LET i == idx + 1
             r == Node_insert(L.heap, L.entry, i, elem, coins)
             sz == L.size + 1
         IN IF r.err # "none" THEN LRes([L EXCEPT !.heap = r.heap], FALSE, 0, r.err, TRUE)
            ELSE IF r.ret # 0
            THEN LRes(grow(r.heap, L.entry, i, sz, r.ret), TRUE, 0, "none", FALSE)
            ELSE LRes([heap |-> r.heap, entry |-> L.entry, size |-> sz], TRUE, 0, "none", FALSE)

\* insert with the range check off by one: `i > self.size + 1`
insert_late_check(var, L, idx, elem, coins) ==
    IF idx > L.size + 1 THEN LRes(L, FALSE, 0, "OutOfRange", var = "list")
    ELSE LET i == idx + 1
             r == Node_insert(L.heap, L.entry, i, elem, coins)
             sz == L.size + 1
         IN IF r.err # "none" THEN LRes([L EXCEPT !.heap = r.heap], FALSE, 0, r.err, TRUE)
            ELSE IF r.ret # 0 /\ coins[r.used + 1]
            THEN LRes(grow(r.heap, L.entry, i, sz, r.ret), TRUE, 0, "none", FALSE)
            ELSE LRes([heap |-> r.heap, entry |-> L.entry, size |-> sz], TRUE, 0, "none", FALSE)

\* SkipLinkedList::insert; var = "list" panics when out of range, var = "cli" returns false
insert(var, L, idx, elem, coins) ==
    IF idx > L.size THEN LRes(L, FALSE, 0, "OutOfRange", var = "list")
    ELSE LET i == idx + 1
             r == Node_insert(L.heap, L.entry, i, elem, coins)
             sz == L.size + 1
         IN IF r.err # "none" THEN LRes([L EXCEPT !.heap = r.heap], FALSE, 0, r.err, TRUE)
            ELSE IF r.ret # 0 /\ coins[r.used + 1]
            THEN LRes(grow(r.heap, L.entry, i, sz, r.ret), TRUE, 0, "none", FALSE)
            ELSE LRes([heap |-> r.heap, entry |-> L.entry, size |-> sz], TRUE, 0, "none", FALSE)

(* -------------------------------- get ---------------------------------- *)
\* the result of Node::get: arm is the arm of get_at that produced it
GRes(some, ret, err, arm) == [some |-> some, ret |-> ret, err |-> err, arm |-> arm]

RECURSIVE Node_get(_, _, _)
RECURSIVE get_at(_, _, _)

\* Node::get_at
get_at(h, n, i) ==
    IF h[n].kind = "S" /\ h[n].down # 0 THEN Node_get(h, h[n].down, i)
    ELSE IF h[n].kind = "I"
    THEN IF h[h[n].down].kind = "free" THEN GRes(FALSE, 0, "dangling", "index")
         ELSE Node_get(h, h[n].down, i)
    ELSE IF h[n].kind = "C" /\ i = 0 THEN GRes(TRUE, h[n].elem, "none", "content")
    ELSE GRes(FALSE, 0, "none", "fallthrough")

\* Node::get
Node_get(h, node, i) ==
    IF delta(h, node) <= i
    THEN IF h[node].right = 0 THEN GRes(FALSE, 0, "unwrap", "walk")
         ELSE Node_get(h, h[node].right, i - delta(h, node))
    ELSE get_at(h, node, i)

\* get with the range check `i > self.size`
get_late_check(L, i) ==
    IF i > L.size THEN GRes(FALSE, 0, "none", "bounds")
    ELSE Node_get(L.heap, L.entry, i + 1)

\* SkipLinkedList::get
get(L, i) ==
    IF i >= L.size THEN GRes(FALSE, 0, "none", "bounds")
    ELSE Node_get(L.heap, L.entry, i + 1)

\* SkipLinkedList::len
len(L) == L.size

(* ------------------------------ remove --------------------------------- *)
\* the result of Node::remove_right
RRes(h, some, ret, err) == [heap |-> h, some |-> some, ret |-> ret, err |-> err]

\* remove_right with `*delta += removed.delta()`
remove_right_absorb_all(h, n) ==
    IF h[n].right = 0 THEN RRes(h, FALSE, 0, "unwrap")
    ELSE LET removed == h[n].right
             h1 == [h EXCEPT ![n].right = h[removed].right]
             h2 == IF h[n].kind = "C" THEN h1
                   ELSE [h1 EXCEPT ![n].delta = @ + delta(h, removed)]
             h3 == [h2 EXCEPT ![removed] = FreeNode]
         IN IF h[removed].kind = "C" THEN RRes(h3, TRUE, h[removed].elem, "none")
            ELSE RRes(h3, FALSE, 0, "none")

\* remove_right without `*delta += removed.delta() - 1`
remove_right_no_absorb(h, n) ==
    IF h[n].right = 0 THEN RRes(h, FALSE, 0, "unwrap")
    ELSE LET removed == h[n].right
             h1 == [h EXCEPT ![n].right = h[removed].right]
             h3 == [h1 EXCEPT ![removed] = FreeNode]
         IN IF h[removed].kind = "C" THEN RRes(h3, TRUE, h[removed].elem, "none")
            ELSE RRes(h3, FALSE, 0, "none")

\* Node::remove_right
remove_right(h, n) ==
    IF h[n].right = 0 THEN RRes(h, FALSE, 0, "unwrap")
    ELSE LET removed == h[n].right
             h1 == [h EXCEPT ![n].right = h[removed].right]
             h2 == IF h[n].kind = "C" THEN h1
                   ELSE [h1 EXCEPT ![n].delta = @ + delta(h, removed) - 1]
             h3 == [h2 EXCEPT ![removed] = FreeNode]
         IN IF h[n].kind # "C" /\ delta(h, removed) < 1 THEN RRes(h1, FALSE, 0, "underflow")
            ELSE IF h[removed].kind = "C" THEN RRes(h3, TRUE, h[removed].elem, "none")
            ELSE RRes(h3, FALSE, 0, "none")

RECURSIVE Node_remove(_, _, _)
RECURSIVE remove_after(_, _, _)

\* remove_after with `*delta -= 1` also after remove_right
remove_after_always_dec(h, n, i) ==
    IF h[n].kind = "C" \/ (h[n].kind = "S" /\ h[n].down = 0)
    THEN LET rr == remove_right(h, n)
         IN IF rr.err # "none" THEN Res(rr.heap, 0, rr.err, 0)
            ELSE IF ~rr.some THEN Res(rr.heap, 0, "unwrap", 0)
            ELSE Res(rr.heap, rr.ret, "none", 0)
    ELSE IF h[n].kind = "I" /\ h[h[n].down].kind = "free"
    THEN Res(h, 0, "dangling", 0)
    ELSE LET r == Node_remove(h, h[n].down, i)
             rr == IF r.err = "none" /\ delta(r.heap, n) = i + 1
                   THEN remove_right(r.heap, n)
                   ELSE RRes(r.heap, FALSE, 0, r.err)
         IN IF rr.err # "none" THEN Res(rr.heap, r.ret, rr.err, 0)
            ELSE IF delta(rr.heap, n) < 1 THEN Res(rr.heap, r.ret, "underflow", 0)
            ELSE Res([rr.heap EXCEPT ![n].delta = @ - 1], r.ret, "none", 0)

\* remove_after that never unlinks an index node: `*delta -= 1` on every path
remove_after_no_splice(h, n, i) ==
    IF h[n].kind = "C" \/ (h[n].kind = "S" /\ h[n].down = 0)
    THEN LET rr == remove_right(h, n)
         IN IF rr.err # "none" THEN Res(rr.heap, 0, rr.err, 0)
            ELSE IF ~rr.some THEN Res(rr.heap, 0, "unwrap", 0)
            ELSE Res(rr.heap, rr.ret, "none", 0)
    ELSE IF h[n].kind = "I" /\ h[h[n].down].kind = "free"
    THEN Res(h, 0, "dangling", 0)
    ELSE LET r == Node_remove(h, h[n].down, i)
         IN IF r.err # "none" THEN r
            ELSE IF delta(r.heap, n) < 1 THEN Res(r.heap, r.ret, "underflow", 0)
            ELSE Res([r.heap EXCEPT ![n].delta = @ - 1], r.ret, "none", 0)

\* Node::remove_after
remove_after(h, n, i) ==
    IF h[n].kind = "C" \/ (h[n].kind = "S" /\ h[n].down = 0)
    THEN LET rr == remove_right(h, n)
         IN IF rr.err # "none" THEN Res(rr.heap, 0, rr.err, 0)
            ELSE IF ~rr.some THEN Res(rr.heap, 0, "unwrap", 0)
            ELSE Res(rr.heap, rr.ret, "none", 0)
    ELSE IF h[n].kind = "I" /\ h[h[n].down].kind = "free"
    THEN Res(h, 0, "dangling", 0)
    ELSE LET r == Node_remove(h, h[n].down, i)
         IN IF r.err # "none" THEN r
            ELSE IF delta(r.heap, n) = i + 1
            THEN LET rr == remove_right(r.heap, n)
                 IN Res(rr.heap, r.ret, rr.err, 0)
            ELSE IF delta(r.heap, n) < 1 THEN Res(r.heap, r.ret, "underflow", 0)
            ELSE Res([r.heap EXCEPT ![n].delta = @ - 1], r.ret, "none", 0)

\* Node::remove walking with `node.delta() < i`
Node_remove_lt(h, node, i) ==
    IF delta(h, node) < i
    THEN IF h[node].right = 0 THEN Res(h, 0, "unwrap", 0)
         ELSE Node_remove(h, h[node].right, i - delta(h, node))
    ELSE remove_after(h, node, i)

\* Node::remove
Node_remove(h, node, i) ==
    IF delta(h, node) <= i
    THEN IF h[node].right = 0 THEN Res(h, 0, "unwrap", 0)
         ELSE Node_remove(h, h[node].right, i - delta(h, node))
    ELSE remove_after(h, node, i)

\* remove that drops a top lane it emptied
remove_shrink(var, L, i) ==
    IF i >= L.size THEN LRes(L, FALSE, 0, "OutOfRange", var = "list")
    ELSE LET r == Node_remove(L.heap, L.entry, i)
             e == r.heap[L.entry]
             L1 == IF r.err = "none" /\ e.right = 0 /\ e.down # 0
                   THEN [heap |-> [r.heap EXCEPT ![L.entry] = FreeNode], entry |-> e.down, size |-> L.size - 1]
                   ELSE [heap |-> r.heap, entry |-> L.entry, size |-> L.size - 1]
         IN IF r.err # "none" THEN LRes(L1, FALSE, 0, r.err, TRUE)
            ELSE LRes(L1, TRUE, r.ret, "none", FALSE)

\* remove without `self.size -= 1`
remove_keep_size(var, L, i) ==
    IF i >= L.size THEN LRes(L, FALSE, 0, "OutOfRange", var = "list")
    ELSE LET r == Node_remove(L.heap, L.entry, i)
             L1 == [heap |-> r.heap, entry |-> L.entry, size |-> L.size]
         IN IF r.err # "none" THEN LRes(L1, FALSE, 0, r.err, TRUE)
            ELSE LRes(L1, TRUE, r.ret, "none", FALSE)

\* remove with the range check `i > self.size`
remove_late_check(var, L, i) ==
    IF i > L.size THEN LRes(L, FALSE, 0, "OutOfRange", var = "list")
    ELSE LET r == Node_remove(L.heap, L.entry, i)
             L1 == [heap |-> r.heap, entry |-> L.entry, size |-> L.size - 1]
         IN IF r.err # "none" THEN LRes(L1, FALSE, 0, r.err, TRUE)
            ELSE LRes(L1, TRUE, r.ret, "none", FALSE)

\* SkipLinkedList::remove; var = "list" panics when out of range, var = "cli" returns None
remove(var, L, i) ==
    IF i >= L.size THEN LRes(L, FALSE, 0, "OutOfRange", var = "list")
    ELSE LET r == Node_remove(L.heap, L.entry, i)
             L1 == [heap |-> r.heap, entry |-> L.entry, size |-> L.size - 1]
         IN IF r.err # "none" THEN LRes(L1, FALSE, 0, r.err, TRUE)
            ELSE LRes(L1, TRUE, r.ret, "none", FALSE)

(* ------------------------- push / pop / iter --------------------------- *)
\* SkipLinkedList::push_front
push_front(var, L, elem, coins) == insert(var, L, 0, elem, coins)

\* SkipLinkedList::push_back
push_back(var, L, elem, coins) == insert(var, L, L.size, elem, coins)

\* pop_front without the size check
pop_front_unchecked(var, L) == remove(var, L, 0)

\* SkipLinkedList::pop_front: list.rs checks the size, skip_linked_list.rs does not
pop_front(var, L) ==
    IF var = "list"
    THEN IF L.size > 0 THEN remove(var, L, 0) ELSE LRes(L, FALSE, 0, "Empty", TRUE)
    ELSE remove(var, L, 0)

\* pop_back removing at `self.size`
pop_back_at_size(var, build, L) ==
    IF var = "list"
    THEN IF L.size > 0 THEN remove(var, L, L.size) ELSE LRes(L, FALSE, 0, "Empty", TRUE)
    ELSE IF L.size > 0 THEN remove(var, L, L.size)
    ELSE IF build = "debug" THEN LRes(L, FALSE, 0, "underflow", TRUE)
    ELSE LRes(L, FALSE, 0, "OutOfRange", FALSE)

\* SkipLinkedList::pop_back: in skip_linked_list.rs `self.size - 1` is evaluated
\* unchecked; it panics in a debug build and wraps to usize::MAX in a release build
pop_back(var, build, L) ==
    IF var = "list"
    THEN IF L.size > 0 THEN remove(var, L, L.size - 1) ELSE LRes(L, FALSE, 0, "Empty", TRUE)
    ELSE IF L.size > 0 THEN remove(var, L, L.size - 1)
    ELSE IF build = "debug" THEN LRes(L, FALSE, 0, "underflow", TRUE)
    ELSE LRes(L, FALSE, 0, "OutOfRange", FALSE)

\* iter without the descent loop
ground_no_descent(h, node) == node

RECURSIVE ground(_, _)
\* the descent loop of SkipLinkedList::iter
ground(h, node) ==
    IF h[node].kind = "S" /\ h[node].down # 0 THEN ground(h, h[node].down) ELSE node

\* SkipLinkedList::iter: the cursor of the new Iter
iter_new(L) == L.heap[ground(L.heap, L.entry)].right

\* Iter::next
Iter_next(h, cur) ==
    IF cur = 0 THEN [some |-> FALSE, ret |-> 0, cur |-> 0, kind |-> "none"]
    ELSE IF h[cur].kind = "C"
    THEN [some |-> TRUE, ret |-> h[cur].elem, cur |-> h[cur].right, kind |-> "C"]
    ELSE [some |-> FALSE, ret |-> 0, cur |-> 0, kind |-> h[cur].kind]

\* IterMut::next that forgets the rest of the lane
IterMut_next_first(h, cur) ==
    IF cur = 0 THEN [some |-> FALSE, ref |-> 0, ret |-> 0, cur |-> 0]
    ELSE IF h[cur].kind = "C"
    THEN [some |-> TRUE, ref |-> cur, ret |-> h[cur].elem, cur |-> 0]
    ELSE [some |-> FALSE, ref |-> 0, ret |-> 0, cur |-> 0]

\* IterMut::next: ref is the node whose elem the yielded reference points to
IterMut_next(h, cur) ==
    IF cur = 0 THEN [some |-> FALSE, ref |-> 0, ret |-> 0, cur |-> 0]
    ELSE IF h[cur].kind = "C"
    THEN [some |-> TRUE, ref |-> cur, ret |-> h[cur].elem, cur |-> h[cur].right]
    ELSE [some |-> FALSE, ref |-> 0, ret |-> 0, cur |-> 0]

\* a write through a reference that IterMut::next yielded (`*elem += 1` in test::iter_mut)
write(h, ref, w) == [h EXCEPT ![ref].elem = w]

\* IntoIter::next without the test `self.0.len() > 0`
IntoIter_next_unchecked(var, L) == pop_front(var, L)

\* IntoIter::next: list.rs tests the length, skip_linked_list.rs returns pop_front()
IntoIter_next(var, L) ==
    IF var = "list"
    THEN IF len(L) > 0 THEN pop_front(var, L) ELSE LRes(L, FALSE, 0, "none", FALSE)
    ELSE pop_front(var, L)

RECURSIVE Drain(_, _, _, _)
\* `for elem in list.into_iter()` of test::into_iter: IntoIter::next until it
\* returns None, at most `fuel` times; out is what the calls yielded
Drain(var, L, out, fuel) ==
    LET r == IntoIter_next(var, L)
    IN IF r.panic THEN [list |-> r.list, out |-> out, ended |-> FALSE, err |-> r.err]
       ELSE IF ~r.some THEN [list |-> r.list, out |-> out, ended |-> TRUE, err |-> "none"]
       ELSE IF fuel = 0 THEN [list |-> r.list, out |-> Append(out, r.ret), ended |-> FALSE, err |-> "none"]
       ELSE Drain(var, r.list, Append(out, r.ret), fuel - 1)

RECURSIVE MutRun(_, _, _, _)
\* `for elem in list.iter_mut() { *elem = .. }` of test::iter_mut: the caller
\* writes ws[k] through the k-th reference; out is what the references read before
MutRun(h, cur, ws, out) ==
    LET n == IterMut_next(h, cur)
    IN IF ~n.some THEN [heap |-> h, out |-> out, ended |-> TRUE]
       ELSE IF ws = <<>> THEN [heap |-> h, out |-> Append(out, n.ret), ended |-> FALSE]
       ELSE MutRun(write(h, n.ref, Head(ws)), n.cur, Tail(ws), Append(out, n.ret))

(* -------------------------------- drop --------------------------------- *)
\* One release of a node: the node, its kind, its right link at the time of the
\* release, how the release was reached (via) and how deep it is nested.
Freed(h, n, via, depth) == [node |-> n, kind |-> h[n].kind, right |-> h[n].right, via |-> via, depth |-> depth]

\* the result of a drop: the heap, the releases in order, and the error if any
DRes(h, log, err) == [heap |-> h, log |-> log, err |-> err]

RECURSIVE drop_box(_, _, _, _, _)
\* the drop glue of Box<Node>: the fields first (right, then a sentinel's down;
\* the down of an index is a NonNull and is not dropped), then the node itself
drop_box(h, n, via, depth, log) ==
    IF h[n].kind = "free" THEN DRes(h, log, "double free")
    ELSE LET r1 == IF h[n].right = 0 THEN DRes(h, log, "none")
                   ELSE drop_box(h, h[n].right, "right", depth + 1, log)
             r2 == IF r1.err # "none" \/ h[n].kind # "S" \/ h[n].down = 0 THEN r1
                   ELSE drop_box(r1.heap, h[n].down, "down", depth + 1, r1.log)
         IN IF r2.err # "none" THEN r2
            ELSE DRes([r2.heap EXCEPT ![n] = FreeNode], Append(r2.log, Freed(h, n, via, depth)), "none")

RECURSIVE drop_chain(_, _, _)
\* the closure of Node::drop_after: `while let Some(next_node) = node.right_mut().take()`
drop_chain(h, node, log) ==
    LET next == h[node].right
        h1 == [h EXCEPT ![node].right = 0]
        r == drop_box(h1, node, "loop", 0, log)
    IN IF r.err # "none" \/ next = 0 THEN r
       ELSE drop_chain(r.heap, next, r.log)

RECURSIVE drop_after(_, _, _)
\* Node::drop_after
drop_after(h, sentinel, log) ==
    LET first == h[sentinel].right
        h1 == [h EXCEPT ![sentinel].right = 0]
        r == IF first = 0 THEN DRes(h1, log, "none") ELSE drop_chain(h1, first, log)
    IN IF r.err = "none" /\ h[sentinel].kind = "S" /\ h[sentinel].down # 0
       THEN drop_after(r.heap, h[sentinel].down, r.log)
       ELSE r

\* the drop of a SkipLinkedList without the Drop impl: the drop glue alone
drop_glue_only(L) == drop_box(L.heap, L.entry, "entry", 0, <<>>)

\* Drop for SkipLinkedList, followed by the drop glue of the field `entry`
drop(L) ==
    LET r == drop_after(L.heap, L.entry, <<>>)
    IN IF r.err # "none" THEN r ELSE drop_box(r.heap, L.entry, "entry", 0, r.log)

(* --------------------------- observations ------------------------------ *)
Self == [heap |-> heap, entry |-> entry, size |-> size]

RECURSIVE Lanes(_, _)
\* number of sentinels on the down chain of the entry
Lanes(h, node) == IF h[node].down = 0 THEN 1 ELSE 1 + Lanes(h, h[node].down)

\* Vec::insert and Vec::remove of the reference array
VecInsert(a, i, v) == SubSeq(a, 1, i) \o <<v>> \o SubSeq(a, i + 1, Len(a))

VecRemove(a, i) == SubSeq(a, 1, i) \o SubSeq(a, i + 2, Len(a))

\* what get(0), get(1), ... return on L, as a sequence
Elements(L) == [k \in 1..L.size |-> get(L, k - 1).ret]

(* ----------------------------- addresses ------------------------------- *)
\* Addresses carry no meaning beyond identity (Link = Box<Node>, WeakLink =
\* NonNull<Node>): between calls the live nodes are renumbered in the order
\* lane by lane from the entry, each lane left to right.  A pointer to a freed
\* node keeps pointing to a free cell, DanglingId, that is never handed out.
DanglingId == (MaxSize + 1) * MaxLanes + 3

RECURSIVE Chain(_, _)
Chain(h, n) == IF n = 0 THEN <<>> ELSE <<n>> \o Chain(h, h[n].right)

RECURSIVE Tower(_, _)
Tower(h, s) == IF s = 0 THEN <<>> ELSE Chain(h, s) \o Tower(h, h[s].down)

RECURSIVE Sorted(_)
Sorted(S) == IF S = {} THEN <<>>
             ELSE LET m == CHOOSE x \in S : \A y \in S : x <= y IN <<m>> \o Sorted(S \ {m})

Range(q) == {q[k] : k \in 1..Len(q)}

Canon(L) ==
    LET h == L.heap
        reach == Tower(h, L.entry)
        lost == Sorted({n \in NodeIds : h[n].kind # "free" /\ n \notin Range(reach)})
        ord == reach \o lost
        rng == Range(ord)
        To(n) == IF n = 0 THEN 0
                 ELSE IF n \in rng THEN CHOOSE k \in 1..Len(ord) : ord[k] = n
                 ELSE DanglingId
    IN [heap |-> [k \in NodeIds |->
                    IF k <= Len(ord)
                    THEN [h[ord[k]] EXCEPT !.right = To(@), !.down = To(@)]
                    ELSE FreeNode],
        entry |-> To(L.entry),
        size |-> L.size]

(* ------------------------------ actions -------------------------------- *)
\* last: the last call: its name, its error ("none" when it succeeded), the
\* position and the value of a successful insert or push (0 otherwise), and
\* undo: a successful remove or pop that directly followed a successful insert
\* or push at the position it removed and returned the value just inserted.
Call(op, i, v, r) ==
    [op |-> op, err |-> r.err, panic |-> r.panic,
     i |-> IF r.err = "none" THEN i ELSE 0,
     v |-> IF r.err = "none" THEN v ELSE 0,
     undo |-> FALSE]

Undo(op, i, r) ==
    [op |-> op, err |-> r.err, panic |-> r.panic, i |-> 0, v |-> 0,
     undo |-> /\ r.err = "none"
              /\ last.op \in {"insert", "push_front", "push_back"}
              /\ last.err = "none"
              /\ last.i = i
              /\ last.v = r.ret]

\* iter.kind: "iter" (Iter), "iter_mut" (IterMut), "into_iter" (IntoIter); out is
\* what an Iter or IntoIter yielded, and what was written through an IterMut
NoIter == [on |-> FALSE, kind |-> "none", cur |-> 0, out |-> <<>>, done |-> FALSE]

Quiet(op) == [op |-> op, err |-> "none", panic |-> FALSE, i |-> 0, v |-> 0, undo |-> FALSE]

Init ==
    /\ variant \in {"list", "cli"}
    /\ heap = new.heap
    /\ entry = new.entry
    /\ size = new.size
    /\ arr = <<>>
    /\ net = 0
    /\ iter = NoIter
    /\ last = Quiet("new")

\* the state after a call that returned r
Apply(r) ==
    /\ LET c == Canon(r.list)
       IN heap' = c.heap /\ entry' = c.entry /\ size' = c.size
    /\ UNCHANGED <<variant, iter>>

\* the bounds of the model: at most MaxSize elements and MaxLanes lanes
Bounded(r) == r.list.size <= MaxSize /\ Lanes(r.list.heap, r.list.entry) <= MaxLanes

Insert(i, v, coins) ==
    /\ ~iter.on
    /\ (i > size \/ size < MaxSize)
    /\ LET r == insert(variant, Self, i, v, coins)
       IN /\ Bounded(r)
          /\ Apply(r)
          /\ arr' = IF r.err = "none" THEN VecInsert(arr, i, v) ELSE arr
          /\ net' = IF r.err = "none" THEN net + 1 ELSE net
          /\ last' = Call("insert", i, v, r)

PushFront(v, coins) ==
    /\ ~iter.on
    /\ size < MaxSize
    /\ LET r == push_front(variant, Self, v, coins)
       IN /\ Bounded(r)
          /\ Apply(r)
          /\ arr' = IF r.err = "none" THEN VecInsert(arr, 0, v) ELSE arr
          /\ net' = IF r.err = "none" THEN net + 1 ELSE net
          /\ last' = Call("push_front", 0, v, r)

PushBack(v, coins) ==
    /\ ~iter.on
    /\ size < MaxSize
    /\ LET r == push_back(variant, Self, v, coins)
       IN /\ Bounded(r)
          /\ Apply(r)
          /\ arr' = IF r.err = "none" THEN VecInsert(arr, Len(arr), v) ELSE arr
          /\ net' = IF r.err = "none" THEN net + 1 ELSE net
          /\ last' = Call("push_back", Len(arr), v, r)

Remove(i) ==
    /\ ~iter.on
    /\ LET r == remove(variant, Self, i)
       IN /\ Apply(r)
          /\ arr' = IF r.err = "none" THEN VecRemove(arr, i) ELSE arr
          /\ net' = IF r.err = "none" THEN net - 1 ELSE net
          /\ last' = Undo("remove", i, r)

PopFront ==
    /\ ~iter.on
    /\ LET r == pop_front(variant, Self)
       IN /\ Apply(r)
          /\ arr' = IF r.err = "none" THEN VecRemove(arr, 0) ELSE arr
          /\ net' = IF r.err = "none" THEN net - 1 ELSE net
          /\ last' = Undo("pop_front", 0, r)

PopBack(build) ==
    /\ ~iter.on
    /\ LET r == pop_back(variant, build, Self)
       IN /\ Apply(r)
          /\ arr' = IF r.err = "none" THEN VecRemove(arr, Len(arr) - 1) ELSE arr
          /\ net' = IF r.err = "none" THEN net - 1 ELSE net
          /\ last' = Undo("pop_back", Len(arr) - 1, r)

Get(i) ==
    /\ ~iter.on
    /\ LET g == get(Self, i)
       IN last' = [Quiet("get") EXCEPT !.err = g.err, !.panic = g.err # "none"]
    /\ UNCHANGED <<variant, heap, entry, size, arr, net, iter>>

\* SkipLinkedList::iter borrows the list: no other call until the Iter is dropped
IterStart ==
    /\ ~iter.on
    /\ iter' = [on |-> TRUE, kind |-> "iter", cur |-> iter_new(Self), out |-> <<>>, done |-> FALSE]
    /\ last' = Quiet("iter")
    /\ UNCHANGED <<variant, heap, entry, size, arr, net>>

IterNext ==
    /\ iter.on /\ iter.kind = "iter"
    /\ LET n == Iter_next(heap, iter.cur)
       IN iter' = [on |-> TRUE, kind |-> "iter", cur |-> n.cur,
                   out |-> IF n.some THEN Append(iter.out, n.ret) ELSE iter.out,
                   done |-> ~n.some]
    /\ UNCHANGED <<variant, heap, entry, size, arr, net, last>>

\* the end of the borrow of an Iter or an IterMut
IterDrop ==
    /\ iter.on /\ iter.kind \in {"iter", "iter_mut"}
    /\ iter' = NoIter
    /\ UNCHANGED <<variant, heap, entry, size, arr, net, last>>

\* SkipLinkedList::iter_mut borrows the list exclusively
IterMutStart ==
    /\ ~iter.on
    /\ iter' = [on |-> TRUE, kind |-> "iter_mut", cur |-> iter_new(Self), out |-> <<>>, done |-> FALSE]
    /\ last' = Quiet("iter_mut")
    /\ UNCHANGED <<variant, heap, entry, size, arr, net>>

\* IterMut::next, and the caller writing w through the reference it got
IterMutNext(w) ==
    /\ iter.on /\ iter.kind = "iter_mut"
    /\ LET n == IterMut_next(heap, iter.cur)
       IN /\ iter' = [on |-> TRUE, kind |-> "iter_mut", cur |-> n.cur,
                      out |-> IF n.some THEN Append(iter.out, w) ELSE iter.out,
                      done |-> ~n.some]
          /\ heap' = IF n.some THEN write(heap, n.ref, w) ELSE heap
          /\ arr' = IF n.some THEN [arr EXCEPT ![Len(iter.out) + 1] = w] ELSE arr
    /\ UNCHANGED <<variant, entry, size, net, last>>

\* SkipLinkedList::into_iter moves the list into the IntoIter
IntoIterStart ==
    /\ ~iter.on
    /\ iter' = [on |-> TRUE, kind |-> "into_iter", cur |-> 0, out |-> <<>>, done |-> FALSE]
    /\ last' = Quiet("into_iter")
    /\ UNCHANGED <<variant, heap, entry, size, arr, net>>

IntoIterNext ==
    /\ iter.on /\ iter.kind = "into_iter"
    /\ LET r == IntoIter_next(variant, Self)
           c == Canon(r.list)
       IN /\ heap' = c.heap /\ entry' = c.entry /\ size' = c.size
          /\ iter' = [on |-> TRUE, kind |-> "into_iter", cur |-> 0,
                      out |-> IF r.some THEN Append(iter.out, r.ret) ELSE iter.out,
                      done |-> ~r.some]
          /\ arr' = IF r.some THEN VecRemove(arr, 0) ELSE arr
          /\ net' = IF r.some THEN net - 1 ELSE net
          /\ last' = [Quiet("into_iter") EXCEPT !.err = r.err, !.panic = r.panic]
    /\ UNCHANGED variant

\* The list, or the IntoIter that holds it, goes out of scope and a new list
\* takes its place (`list = SkipLinkedList::new()` in main.rs).
Clear ==
    /\ ~iter.on \/ iter.kind = "into_iter"
    /\ LET d == drop(Self)
       \* last.i: the nodes the drop left allocated; last.v: the nodes it released
       IN last' = [Quiet("drop") EXCEPT !.err = d.err,
                                        !.i = Cardinality({n \in NodeIds : d.heap[n].kind # "free"}),
                                        !.v = Len(d.log)]
    /\ heap' = new.heap
    /\ entry' = new.entry
    /\ size' = new.size
    /\ arr' = <<>>
    /\ net' = 0
    /\ iter' = NoIter
    /\ UNCHANGED variant

Next ==
    \/ \E i \in Indexes, v \in Elems, coins \in Coins : Insert(i, v, coins)
    \/ \E v \in Elems, coins \in Coins : PushFront(v, coins)
    \/ \E v \in Elems, coins \in Coins : PushBack(v, coins)
    \/ \E i \in Indexes : Remove(i)
    \/ PopFront
    \/ \E build \in {"debug", "release"} : PopBack(build)
    \/ \E i \in Indexes : Get(i)
    \/ IterStart
    \/ IterNext
    \/ IterDrop
    \/ IterMutStart
    \/ \E w \in Elems : IterMutNext(w)
    \/ IntoIterStart
    \/ IntoIterNext
    \/ Clear

\* the library, src/src/list.rs
InitList == Init /\ variant = "list"

Spec == InitList /\ [][Next]_vars

\* the Option-returning draft the command line uses, src/src/skip_linked_list.rs
InitCli == Init /\ variant = "cli"

SpecCli == InitCli /\ [][Next]_vars

\* either of the two
SpecBoth == Init /\ [][Next]_vars

(* ------------------------------ claims --------------------------------- *)
Builds == {"debug", "release"}

\* the sentinel of lane 0, found without the descent loop of iter
GroundSentinel == CHOOSE n \in NodeIds : heap[n].kind = "S" /\ heap[n].down = 0

RECURSIVE Nth(_, _, _)
\* the node k links to the right of n, 0 past the end of the lane
Nth(h, n, k) == IF n = 0 \/ k = 0 THEN n ELSE Nth(h, h[n].right, k - 1)

\* C1: after every operation get(i) is element i of the reference array for
\* every i < len(), and None for every i >= len().
C1_ArrayEquivalence ==
    /\ size = Len(arr)
    /\ \A i \in Indexes :
          LET g == get(Self, i)
          IN /\ g.err = "none"
             /\ IF i < size THEN g.some /\ g.ret = arr[i + 1] ELSE ~g.some

C1_Witness ==
    /\ last.op = "remove" /\ last.err = "none"
    /\ size >= 2 /\ Lanes(heap, entry) >= 3
    /\ arr[1] # arr[2]

\* C2: len() is the number of successful inserts and pushes minus the number
\* of successful removes and pops; a failed call, a get and an iter leave it.
C2_LenCounts ==
    /\ [](len(Self) = net)
    /\ [][(last'.err # "none" \/ last'.op \in {"get", "iter", "iter_mut"})
            => len(Self)' = len(Self)]_vars

C2_Witness ==
    /\ last.op = "pop_back" /\ last.err = "none"
    /\ size >= 1 /\ net = size

\* C3: for every i < len(), remove(i) returns what get(i) returned before it,
\* the elements before i keep their position and those after i move down by one.
C3_RemoveReturnsAndShifts ==
    \A i \in 0..(size - 1) :
        LET g == get(Self, i)
            r == remove(variant, Self, i)
        IN /\ r.err = "none" /\ r.some /\ g.some
           /\ r.ret = g.ret
           /\ r.list.size = size - 1
           /\ \A k \in 0..(i - 1) : get(r.list, k) = get(Self, k)
           /\ \A k \in (i + 1)..(size - 1) : get(r.list, k - 1) = get(Self, k)

C3_Witness ==
    /\ last.op = "remove" /\ last.err = "none"
    /\ size >= 2 /\ Lanes(heap, entry) >= 2
    /\ heap[entry].right # 0

\* C4: insert(i, v) with i > len() fails with OutOfRange, by a panic in
\* list.rs and by returning false in skip_linked_list.rs, and changes nothing.
C4_InsertOutOfRange ==
    \A i \in Indexes, v \in Elems, coins \in Coins :
        i > size =>
            LET r == insert(variant, Self, i, v, coins)
            IN /\ r.err = "OutOfRange"
               /\ r.panic = (variant = "list")
               /\ ~r.some
               /\ r.list = Self

C4_Witness ==
    /\ last.op = "insert" /\ last.err = "OutOfRange"
    /\ size >= 1 /\ Lanes(heap, entry) >= 2

\* C5: remove(i) with i >= len() fails with OutOfRange, by a panic in list.rs
\* and by returning None in skip_linked_list.rs, and changes nothing.
C5_RemoveOutOfRange ==
    \A i \in Indexes :
        i >= size =>
            LET r == remove(variant, Self, i)
            IN /\ r.err = "OutOfRange"
               /\ r.panic = (variant = "list")
               /\ ~r.some
               /\ r.list = Self

C5_Witness ==
    /\ last.op = "remove" /\ last.err = "OutOfRange"
    /\ size >= 1 /\ Lanes(heap, entry) >= 2

\* C6: in list.rs pop_front and pop_back on an empty list panic with Empty
\* and leave the list as it was, whatever the height of the tower.
C6_PopEmpty ==
    size = 0 =>
        /\ pop_front(variant, Self) = LRes(Self, FALSE, 0, "Empty", TRUE)
        /\ \A build \in Builds : pop_back(variant, build, Self) = LRes(Self, FALSE, 0, "Empty", TRUE)

C6_Witness ==
    /\ last.op = "pop_front" /\ last.err = "Empty" /\ last.panic
    /\ size = 0 /\ Lanes(heap, entry) >= 2

\* C7: get(i) is None exactly when i >= len(); for i < len() it is Some, the
\* fall-through arm of get_at is not taken and no unwrap fails.
C7_GetTotal ==
    \A i \in Indexes :
        LET g == get(Self, i)
        IN /\ g.err = "none"
           /\ g.some <=> i < size
           /\ g.arm = IF i < size THEN "content" ELSE "bounds"

C7_Witness ==
    /\ last.op = "get" /\ last.err = "none"
    /\ size >= 2 /\ Lanes(heap, entry) >= 3
    /\ get(Self, size - 1).some

\* C8: insert(i, v) directly followed by remove(i) returns v and leaves len()
\* and the elements as they were, for every i <= len() and every coin tape.
C8_InsertRemove ==
    size < MaxSize =>
        \A i \in 0..size, v \in Elems, coins \in Coins :
            LET a == insert(variant, Self, i, v, coins)
                b == remove(variant, a.list, i)
            IN Bounded(a) =>
                /\ a.err = "none" /\ b.err = "none"
                /\ b.some /\ b.ret = v
                /\ b.list.size = size
                /\ Elements(b.list) = Elements(Self)
                /\ \A k \in Indexes : get(b.list, k).err = "none"

C8_Witness ==
    /\ last.op = "remove" /\ last.undo
    /\ size >= 1 /\ Lanes(heap, entry) >= 3

\* C9: push_back(v) then pop_back() returns v, push_front(v) then pop_front()
\* returns v, each pair leaves len() and the elements as they were; the pushes
\* are insert(0, v) and insert(size, v), the pops remove(0) and remove(size - 1).
C9_PushPop ==
    size < MaxSize =>
        \A v \in Elems, coins \in Coins, build \in Builds :
            LET a == push_back(variant, Self, v, coins)
                b == pop_back(variant, build, a.list)
                c == push_front(variant, Self, v, coins)
                d == pop_front(variant, c.list)
            IN /\ a = insert(variant, Self, size, v, coins)
               /\ c = insert(variant, Self, 0, v, coins)
               /\ Bounded(a) =>
                    /\ b = remove(variant, a.list, a.list.size - 1)
                    /\ b.err = "none" /\ b.ret = v
                    /\ b.list.size = size
                    /\ Elements(b.list) = Elements(Self)
               /\ Bounded(c) =>
                    /\ d = remove(variant, c.list, 0)
                    /\ d.err = "none" /\ d.ret = v
                    /\ d.list.size = size
                    /\ Elements(d.list) = Elements(Self)

C9_Witness ==
    /\ last.op = "pop_back" /\ last.undo
    /\ size >= 1 /\ Lanes(heap, entry) >= 2

\* C10: an Iter that has yielded k elements has yielded get(0) .. get(k - 1)
\* and stands on the k-th content node of lane 0; it returns None exactly
\* after len() elements, and its cursor is never a sentinel or an index node.
C10_IterYieldsElements ==
    iter.on /\ iter.kind = "iter" =>
        LET k == Len(iter.out)
        IN /\ k <= size
           /\ \A j \in 1..k : get(Self, j - 1).some /\ iter.out[j] = get(Self, j - 1).ret
           /\ iter.done => k = size
           /\ iter.cur = IF iter.done THEN 0 ELSE Nth(heap, GroundSentinel, k + 1)
           /\ iter.cur # 0 => heap[iter.cur].kind = "C"
           /\ iter.cur = 0 => k = size

C10_Witness ==
    /\ iter.on /\ iter.kind = "iter" /\ iter.done
    /\ Len(iter.out) >= 2 /\ iter.out[1] # iter.out[2]
    /\ Lanes(heap, entry) >= 2

\* nodes, links and spans of two heaps agree (the elements may differ)
SameShape(h1, h2) ==
    \A n \in NodeIds : /\ h1[n].kind = h2[n].kind
                        /\ h1[n].right = h2[n].right
                        /\ h1[n].down = h2[n].down
                        /\ h1[n].delta = h2[n].delta

\* C11: calling next() on the into_iter() of a container with n elements yields
\* the elements in position order, one per call, for exactly n calls; the call
\* after them returns None without a panic, leaves the wrapped container at
\* len() = 0, and so does every later call.
C11_IntoIterDrains ==
    /\ LET d == Drain(variant, Self, <<>>, MaxSize + 1)
           again == IntoIter_next(variant, d.list)
       IN /\ d.ended /\ d.err = "none"
          /\ d.out = arr
          /\ Len(d.out) = size
          /\ \A k \in 0..(size - 1) : d.out[k + 1] = get(Self, k).ret
          /\ len(d.list) = 0
          /\ ~again.some /\ ~again.panic /\ again.list = d.list
    /\ (iter.on /\ iter.kind = "into_iter") =>
          /\ ~last.panic
          /\ iter.done => size = 0 /\ net = 0

C11_Witness ==
    /\ iter.on /\ iter.kind = "into_iter" /\ iter.done
    /\ Len(iter.out) = MaxSize /\ iter.out[1] # iter.out[2]
    /\ size = 0 /\ ~last.panic

\* C12: iter_mut() yields every element once, in position order; writing through
\* the references changes the element values only: get(k) then returns what was
\* written at position k, and len(), the lanes, the links and every span are as
\* they were.
C12_IterMutFrame ==
    /\ \A ws \in [1..size -> Elems] :
          LET m == MutRun(heap, iter_new(Self), ws, <<>>)
              L == [heap |-> m.heap, entry |-> entry, size |-> size]
          IN /\ m.ended
             /\ m.out = arr
             /\ \A k \in 0..(size - 1) : m.out[k + 1] = get(Self, k).ret
             /\ SameShape(m.heap, heap)
             /\ len(L) = len(Self)
             /\ Elements(L) = ws
             /\ \A k \in 0..(size - 1) : get(L, k).some /\ get(L, k).ret = ws[k + 1]
    /\ (iter.on /\ iter.kind = "iter_mut") =>
          /\ Len(iter.out) <= size
          /\ \A k \in 1..Len(iter.out) : get(Self, k - 1).ret = iter.out[k]
          /\ iter.done => Len(iter.out) = size

C12_Witness ==
    /\ iter.on /\ iter.kind = "iter_mut" /\ iter.done
    /\ Len(iter.out) >= 2 /\ iter.out[1] # iter.out[2]
    /\ Elements(Self) = iter.out
    /\ Lanes(heap, entry) >= 2

\* C13: dropping the container in any reachable state releases every sentinel,
\* index and content node exactly once; every index and content node is released
\* by the loop of drop_after with its right link already taken; the only nested
\* releases are the sentinels along their down links, as deep as there are
\* lanes; no down link of an index node is followed.
C13_DropFreesAll ==
    LET d == drop(Self)
        live == {n \in NodeIds : heap[n].kind # "free"}
    IN /\ d.err = "none"
       /\ {d.log[k].node : k \in DOMAIN d.log} = live
       /\ Len(d.log) = Cardinality(live)
       /\ \A n \in NodeIds : d.heap[n].kind = "free"
       /\ \A k \in DOMAIN d.log :
             LET f == d.log[k]
             IN /\ f.right = 0
                /\ f.kind # "S" => f.via = "loop" /\ f.depth = 0
                /\ f.kind = "S" => f.via \in {"entry", "down"} /\ f.depth < Lanes(heap, entry)
                /\ f.via = "down" => f.kind = "S"
       /\ \E k \in DOMAIN d.log : d.log[k].depth + 1 = Lanes(heap, entry)
       /\ last.op = "drop" => last.err = "none" /\ last.i = 0

C13_Witness ==
    /\ last.op = "drop" /\ last.err = "none" /\ last.i = 0
    /\ last.v >= MaxSize + 3
    /\ size = 0 /\ Lanes(heap, entry) = 1

RECURSIVE Sentinels(_, _)
\* the sentinels from s down to lane 0
Sentinels(h, s) == IF s = 0 THEN <<>> ELSE <<s>> \o Sentinels(h, h[s].down)

RECURSIVE SumDelta(_, _)
\* the sum of Node::delta over the nodes of q
SumDelta(h, q) == IF q = <<>> THEN 0 ELSE delta(h, Head(q)) + SumDelta(h, Tail(q))

\* the sentinel of lane k; lane 0 is the content lane
LaneSentinel(h, e, k) == Sentinels(h, e)[Lanes(h, e) - k]

\* the nodes of lane k, the sentinel first
Lane(h, e, k) == Chain(h, LaneSentinel(h, e, k))

\* C14: after every operation, on every lane, the spans of the sentinel and of
\* all nodes to its right (a content node counts 1) add up to len() + 1.
C14_LaneSum ==
    \A k \in 0..(Lanes(heap, entry) - 1) :
        SumDelta(heap, Lane(heap, entry, k)) = len(Self) + 1

C14_Witness ==
    /\ last.op = "insert" /\ last.err = "none"
    /\ size = MaxSize /\ Lanes(heap, entry) = MaxLanes
    /\ \E n \in NodeIds : heap[n].kind = "I" /\ heap[n].delta >= 2

RECURSIVE Upto(_, _, _)
\* the nodes from n rightwards up to, and not including, stop (the end of the
\* lane when stop = 0)
Upto(h, n, stop) == IF n = 0 \/ n = stop THEN <<>> ELSE <<n>> \o Upto(h, h[n].right, stop)

\* the nodes of the lane below that node n spans: from n.down up to just before
\* the node below n.right
Under(h, n) == Upto(h, h[n].down, IF h[n].right = 0 THEN 0 ELSE h[h[n].right].down)

\* the index nodes and the sentinels of the lanes above lane 0
Upper(h) == {n \in NodeIds : h[n].kind = "I" \/ (h[n].kind = "S" /\ h[n].down # 0)}

\* C15: the span of every index node, and of every sentinel above lane 0, is
\* the sum of the spans on the lane below from its down target up to just
\* before the node below its right neighbour (to the end of the lane when it
\* has no right neighbour).
C15_SpanConsistency ==
    \A n \in Upper(heap) : delta(heap, n) = SumDelta(heap, Under(heap, n))

C15_Witness ==
    /\ last.op \in {"remove", "pop_front", "pop_back"} /\ last.err = "none"
    /\ Lanes(heap, entry) = MaxLanes
    /\ \E n \in Upper(heap) : heap[n].kind = "I" /\ heap[heap[n].down].kind = "I"
                                /\ Len(Under(heap, n)) >= 2

\* the position of the a-th node to the right of the sentinel of lane q: the
\* sum of the spans to its left
Pos(h, q, a) == SumDelta(h, SubSeq(q, 1, a))

\* where node x is on lane q (the sentinel is 1), 0 when it is not there
Place(q, x) == IF \E b \in 1..Len(q) : q[b] = x THEN CHOOSE b \in 1..Len(q) : q[b] = x ELSE 0

\* C16: every index node of lane k >= 1 links down to a node of lane k - 1 at
\* the same position (a content node on lane 0, an index node above), so the
\* elements of lane k are a subsequence of the elements of lane k - 1; the
\* sentinel of lane k links down to the sentinel of lane k - 1.
C16_DownLinks ==
    \A k \in 1..(Lanes(heap, entry) - 1) :
        LET up == Lane(heap, entry, k)
            lo == Lane(heap, entry, k - 1)
            under(a) == Place(lo, heap[up[a]].down)
        IN /\ under(1) = 1
           /\ \A a \in 2..Len(up) :
                 /\ heap[up[a]].kind = "I"
                 /\ under(a) >= 2
                 /\ heap[lo[under(a)]].kind = (IF k = 1 THEN "C" ELSE "I")
                 /\ Pos(heap, up, a - 1) = Pos(heap, lo, under(a) - 1)
                 /\ under(a - 1) < under(a)

C16_Witness ==
    /\ last.op = "insert" /\ last.err = "none" /\ last.i = 1
    /\ Lanes(heap, entry) = MaxLanes /\ size = MaxSize
    /\ Len(Lane(heap, entry, 1)) >= 3 /\ Len(Lane(heap, entry, 2)) >= 2
    /\ Len(Lane(heap, entry, 1)) < Len(Lane(heap, entry, 0))

\* the index nodes of h whose down link points to a freed node
Dangling(h) == {n \in NodeIds : h[n].kind = "I" /\ (h[n].down = 0 \/ h[h[n].down].kind = "free")}

\* C17: between operations no live index node has a down link to a freed
\* node; get, insert and remove never dereference a down link to a freed node;
\* a remove leaves no index node above a node it freed.
C17_NoDangling ==
    /\ Dangling(heap) = {}
    /\ last.err # "dangling"
    /\ \A i \in Indexes :
          /\ get(Self, i).err = "none"
          /\ i < size =>
                LET r == remove(variant, Self, i)
                IN /\ r.err = "none"
                   /\ Dangling(r.list.heap) = {}
                   /\ \A n \in NodeIds : heap[n].kind = "I" /\ r.list.heap[n].kind = "I"
                                            => r.list.heap[n].down = heap[n].down
          /\ (i <= size /\ size < MaxSize) =>
                \A coins \in Coins :
                    LET r == insert(variant, Self, i, 1, coins)
                    IN r.err = "none" /\ Dangling(r.list.heap) = {}

C17_Witness ==
    /\ last.op = "remove" /\ last.undo
    /\ Lanes(heap, entry) = MaxLanes /\ heap[entry].right = 0
    /\ size >= 2 /\ Len(Lane(heap, entry, 1)) >= 2

\* the path predecessor of position i on lane q: the a with
\* Pos(q[a]) <= i < Pos(q[a]) + delta(q[a]), where Node::remove stops walking
PathPred(h, q, i) == CHOOSE a \in 1..Len(q) : Pos(h, q, a - 1) <= i /\ i < Pos(h, q, a)

\* remove(i) finds on lane q a path predecessor whose span ends at the removed element
Hit(h, q, i) ==
    LET a == PathPred(h, q, i)
    IN delta(h, q[a]) = (i - Pos(h, q, a - 1)) + 1

\* what remove(i) did to lane k, q before the call, in the heap h2 after it
LaneEffect(h, h2, q, k, i) ==
    LET a == PathPred(h, q, i)
        N == q[a]
        removed == h[N].right
    IN /\ k = 0 => Hit(h, q, i)
       /\ IF Hit(h, q, i)
          THEN /\ removed # 0
               /\ Pos(h, q, a) = i + 1
               /\ h2[removed].kind = "free"
               /\ Chain(h2, q[1]) = SubSeq(q, 1, a) \o SubSeq(q, a + 2, Len(q))
               /\ h2[N] = [h[N] EXCEPT !.right = h[removed].right,
                                       !.delta = IF h[N].kind = "C" THEN @
                                                 ELSE @ + delta(h, removed) - 1]
               /\ \A b \in 1..Len(q) : b \notin {a, a + 1} => h2[q[b]] = h[q[b]]
          ELSE /\ Chain(h2, q[1]) = q
               /\ h2[N] = [h[N] EXCEPT !.delta = @ - 1]
               /\ \A b \in 1..Len(q) : b # a => h2[q[b]] = h[q[b]]

\* C18: remove(i) deletes from every lane exactly the node of the removed
\* element.  On a lane whose path predecessor N has delta(N) = local_i + 1 the
\* node N.right is that node: it is unlinked and freed, and on a lane >= 1
\* delta(N) becomes delta(N) + delta(removed) - 1.  On every other lane >= 1 no
\* node is removed and delta(N) goes down by 1.  Nothing else changes.
C18_RemoveLanes ==
    \A i \in 0..(size - 1) :
        LET r == remove(variant, Self, i)
            h2 == r.list.heap
        IN /\ r.err = "none"
           /\ r.list.entry = entry
           /\ Sentinels(h2, entry) = Sentinels(heap, entry)
           /\ \A k \in 0..(Lanes(heap, entry) - 1) :
                 LaneEffect(heap, h2, Lane(heap, entry, k), k, i)
           /\ \A n \in NodeIds : heap[n].kind = "free" => h2[n].kind = "free"

C18_Witness ==
    /\ last.op = "remove" /\ last.err = "none" /\ ~last.undo
    /\ Lanes(heap, entry) = MaxLanes /\ size >= 2
    /\ \E i \in 0..(size - 1) :
          /\ Hit(heap, Lane(heap, entry, 1), i)
          /\ ~Hit(heap, Lane(heap, entry, 2), i)
          /\ delta(heap, heap[Lane(heap, entry, 1)[PathPred(heap, Lane(heap, entry, 1), i)]].right) >= 2

\* insert(i, ..) promoted the new element on lane k, which existed before the
\* call: q is the lane before the call, h2 the heap after it
Promoted(h2, q) == Len(Chain(h2, q[1])) = Len(q) + 1

\* local_i of insert(i, ..) on lane q: the 1-based index left when Node::insert
\* stops walking at the predecessor
LocalI(h, q, i) == (i + 1) - Pos(h, q, PathPred(h, q, i) - 1)

\* the split of insert(i, ..) on lane q gives the new index node the span
\* before + extra - local_i, before being the predecessor's span before the call
SplitSpan(h, h2, q, i, extra) ==
    LET a == PathPred(h, q, i)
        index == Chain(h2, q[1])[a + 1]
    IN /\ h2[q[a]].right = index
       /\ h2[index].kind = "I"
       /\ h[index].kind = "free"
       /\ delta(h2, index) = delta(h, q[a]) + extra - LocalI(h, q, i)
       /\ delta(h2, q[a]) = LocalI(h, q, i)

\* C19 as the spec states it: the new index node of a promotion on an existing
\* lane gets delta(N') - local_i, delta(N') being the predecessor's span before
\* this insert.
C19_Original ==
    \A i \in 0..size, coins \in Coins :
        size < MaxSize =>
            LET r == insert(variant, Self, i, 1, coins)
            IN \A k \in 1..(Lanes(heap, entry) - 1) :
                  Promoted(r.list.heap, Lane(heap, entry, k))
                      => SplitSpan(heap, r.list.heap, Lane(heap, entry, k), i, 0)

\* C19: when an insert promotes the new element on an existing lane k >= 1 by
\* splitting the link of predecessor N' at local_i, the new index node's span is
\* delta(N') + 1 - local_i, delta(N') being the predecessor's span before this
\* insert (insert_at adds 1 to delta(N') and insert_index_after splits the sum),
\* and the predecessor's span becomes local_i; on a lane without promotion the
\* predecessor's span grows by 1.
C19_SplitSpans ==
    \A i \in 0..size, coins \in Coins :
        size < MaxSize =>
            LET r == insert(variant, Self, i, 1, coins)
                h2 == r.list.heap
            IN /\ r.err = "none"
               /\ \A k \in 1..(Lanes(heap, entry) - 1) :
                     LET q == Lane(heap, entry, k)
                         N == q[PathPred(heap, q, i)]
                     IN IF Promoted(h2, q)
                        THEN SplitSpan(heap, h2, q, i, 1)
                        ELSE /\ Chain(h2, q[1]) = q
                             /\ delta(h2, N) = delta(heap, N) + 1

C19_Witness ==
    /\ last.op = "insert" /\ last.err = "none"
    /\ Lanes(heap, entry) = MaxLanes
    /\ LET q == Lane(heap, entry, 1)
       IN /\ Len(q) >= 3
          /\ \E a \in 3..Len(q) : /\ Pos(heap, q, a - 1) = last.i + 1
                                   /\ delta(heap, q[a - 1]) >= 2

\* the nodes to the right of the top sentinel
TopLane(L) == Tail(Chain(L.heap, L.entry))

\* C20 as the spec states it: in every reachable state the top lane holds at
\* most one non-sentinel node (read for a tower that has an index lane: with
\* lane 0 alone the chain right of the top sentinel is the whole list).
C20_Original == Lanes(heap, entry) >= 2 => Len(TopLane(Self)) <= 1

\* C20: an insert that adds a lane adds one lane, whose only non-sentinel node
\* is the index of the inserted element; an insert that adds no lane can
\* promote its element onto the top lane, so the top lane holds at most len()
\* non-sentinel nodes, not at most one.
C20_TopLane ==
    /\ Len(TopLane(Self)) <= len(Self)
    /\ \A i \in 0..size, coins \in Coins :
          size < MaxSize =>
              LET r == insert(variant, Self, i, 1, coins)
                  L == r.list
              IN /\ r.err = "none"
                 /\ IF L.entry # entry
                    THEN /\ L.heap[L.entry].down = entry
                         /\ Len(TopLane(L)) = 1
                         /\ L.heap[TopLane(L)[1]].kind = "I"
                         /\ L.heap[L.entry].delta = i + 1
                    ELSE Len(TopLane(L)) \in {Len(TopLane(Self)), Len(TopLane(Self)) + 1}

C20_Witness ==
    /\ last.op = "insert" /\ last.err = "none"
    /\ Lanes(heap, entry) = MaxLanes /\ size = MaxSize
    /\ Len(TopLane(Self)) = 1
    /\ heap[entry].delta = last.i + 1
    /\ Len(Lane(heap, entry, MaxLanes - 2)) >= 3

\* the shapes of the top sentinel of L
LoneSentinel(L) ==
    LET e == L.heap[L.entry] IN e.kind = "S" /\ e.right = 0 /\ e.down = 0 /\ len(L) = 0

GroundOnly(L) ==
    LET e == L.heap[L.entry]
    IN e.kind = "S" /\ e.down = 0 /\ e.right # 0 /\ L.heap[e.right].kind = "C" /\ len(L) >= 1

Multilane(L) ==
    LET e == L.heap[L.entry]
    IN e.kind = "S" /\ e.down # 0 /\ L.heap[e.down].kind = "S"
       /\ e.right # 0 /\ L.heap[e.right].kind = "I"

\* the top lane lost its last index node: a sentinel above another, no right link
EmptyTop(L) ==
    LET e == L.heap[L.entry]
    IN e.kind = "S" /\ e.down # 0 /\ L.heap[e.down].kind = "S" /\ e.right = 0

\* how many of the predicates in the sequence ps hold
Count(ps) == Cardinality({k \in DOMAIN ps : ps[k]})

\* C21 as the spec states it: the top sentinel is in exactly one of the three
\* shapes LoneSentinel, GroundOnly, Multilane.
C21_Original == Count(<<LoneSentinel(Self), GroundOnly(Self), Multilane(Self)>>) = 1

\* C21: after any sequence of operations the top sentinel is in exactly one of
\* four shapes: LoneSentinel, GroundOnly, Multilane, or EmptyTop (down is the
\* previous top sentinel and there is no right link, after a remove took the
\* last index node of the top lane); and so it is after one more insert or remove.
C21_EntryShapes ==
    LET Shaped(L) == Count(<<LoneSentinel(L), GroundOnly(L), Multilane(L), EmptyTop(L)>>) = 1
    IN /\ Shaped(Self)
       /\ \A i \in 0..size :
             /\ i < size => Shaped(remove(variant, Self, i).list)
             /\ size < MaxSize =>
                   \A coins \in Coins :
                       LET L == insert(variant, Self, i, 1, coins).list
                       IN Shaped(L) /\ (L.entry # entry => Multilane(L) /\ L.heap[L.entry].down = entry)

C21_Witness ==
    /\ last.op = "pop_front" /\ last.err = "none"
    /\ EmptyTop(Self) /\ size >= 1
    /\ Lanes(heap, entry) >= 2

\* a remove or pop returned r on Self: the lanes are those of Self, and a top
\* lane without nodes has a sentinel that spans the whole list
KeepsLanes(r) ==
    /\ r.err = "none"
    /\ r.list.entry = entry
    /\ Lanes(r.list.heap, r.list.entry) = Lanes(heap, entry)
    /\ r.list.heap[entry].right = 0 => r.list.heap[entry].delta = len(r.list) + 1

\* C22: the number of lanes never decreases: remove, pop_front and pop_back
\* leave it unchanged even when they delete the last index node of the top
\* lane; the top sentinel then has no right link and spans len() + 1, and get,
\* insert and remove still work on such a tower.
C22_LanesNeverShrink ==
    /\ [](/\ \A i \in 0..(size - 1) : KeepsLanes(remove(variant, Self, i))
          /\ size > 0 => /\ KeepsLanes(pop_front(variant, Self))
                          /\ KeepsLanes(pop_back(variant, "debug", Self))
          /\ EmptyTop(Self) =>
                /\ heap[entry].delta = len(Self) + 1
                /\ \A i \in Indexes : LET g == get(Self, i)
                                       IN g.err = "none" /\ (g.some <=> i < size)
                /\ \A i \in 0..(size - 1) :
                      LET r == remove(variant, Self, i)
                      IN r.err = "none" /\ r.ret = get(Self, i).ret
                /\ size < MaxSize =>
                      \A i \in 0..size, coins \in Coins :
                          LET r == insert(variant, Self, i, 1, coins)
                          IN r.err = "none" /\ get(r.list, i).ret = 1)
    /\ [][last'.op # "drop" => Lanes(heap, entry)' >= Lanes(heap, entry)]_vars

C22_Witness ==
    /\ last.op = "insert" /\ last.err = "none"
    /\ Lanes(heap, entry) = MaxLanes /\ EmptyTop(Self)
    /\ heap[heap[entry].down].right = 0
    /\ size >= 2

\* the first n coins of the tape are heads
Heads(coins, n) == \A j \in 1..n : coins[j]

\* the node of position i + 1 on the lane of sentinel s in heap h, 0 when the
\* lane has no node there
NodeAt(h, s, i) ==
    LET q == Chain(h, s)
    IN IF \E a \in 2..Len(q) : Pos(h, q, a - 1) = i + 1
       THEN q[CHOOSE a \in 2..Len(q) : Pos(h, q, a - 1) = i + 1]
       ELSE 0

\* C23: an insert raises the number of lanes by 0 or 1; by 1 exactly when the
\* new element was promoted on every lane above lane 0 that existed before the
\* call and one further coin is heads.  The new top lane is then a sentinel
\* with span i + 1 whose down is the previous top sentinel, followed by a single
\* index node with span len_after - i whose down is the element's node on the
\* previous top lane.
C23_TowerGrowth ==
    \A i \in 0..size, coins \in Coins :
        size < MaxSize =>
            LET r == insert(variant, Self, i, 1, coins)
                L == r.list
                n == Lanes(heap, entry)
                grew == Lanes(L.heap, L.entry) - n
                top == L.heap[L.entry]
            IN /\ r.err = "none"
               /\ grew \in {0, 1}
               /\ \A k \in 1..(n - 1) :
                     Promoted(L.heap, Lane(heap, entry, k)) <=> Heads(coins, k)
               /\ grew = 1 <=> Heads(coins, n)
               /\ grew = 0 => L.entry = entry
               /\ grew = 1 =>
                     /\ heap[L.entry].kind = "free"
                     /\ top.kind = "S" /\ top.delta = i + 1 /\ top.down = entry
                     /\ top.right # 0 /\ heap[top.right].kind = "free"
                     /\ L.heap[top.right] = Index(0, NodeAt(L.heap, entry, i), len(L) - i)
                     /\ NodeAt(L.heap, entry, i) # 0
                     /\ heap[NodeAt(L.heap, entry, i)].kind = "free"

C23_Witness ==
    /\ last.op = "push_back" /\ last.err = "none"
    /\ Lanes(heap, entry) = MaxLanes /\ size = MaxSize
    /\ heap[entry].delta = size
    /\ Len(TopLane(Self)) = 1 /\ heap[TopLane(Self)[1]].delta = 1
    /\ Len(Lane(heap, entry, MaxLanes - 2)) = 2

\* C24: for every valid index (i <= len() for insert, i < len() for get and
\* remove) the walks of Node::insert, Node::get and Node::remove never step onto
\* a missing right link, and the ground-lane step of remove finds a content
\* node to unlink: no unwrap() on None happens.
C24_NoUnwrap ==
    /\ last.err # "unwrap"
    /\ \A i \in 0..size :
          /\ i < size =>
                /\ get(Self, i).err # "unwrap"
                /\ get(Self, i).some
                /\ LET r == remove(variant, Self, i)
                   IN r.err # "unwrap" /\ r.some /\ ~r.panic
          /\ size < MaxSize =>
                \A coins \in Coins :
                    LET r == insert(variant, Self, i, 1, coins)
                    IN r.err # "unwrap" /\ ~r.panic

C24_Witness ==
    /\ last.op = "push_back" /\ last.err = "none"
    /\ size = MaxSize /\ Lanes(heap, entry) = MaxLanes
    /\ Len(TopLane(Self)) >= 2
    /\ heap[entry].delta >= 2

\* every stored span of h is at least 1, and the sentinel of lane 0 has span 1
SpansPositive(h) ==
    \A n \in NodeIds :
        /\ h[n].kind \in {"S", "I"} => h[n].delta >= 1
        /\ (h[n].kind = "S" /\ h[n].down = 0) => h[n].delta = 1

\* C25: every stored span is >= 1 in every reachable state, the span of the
\* sentinel of lane 0 is always 1, and no subtraction of a valid insert or
\* remove goes below zero: `delta - i` in insert_index_after, `self.size - i + 1`
\* in the tower growth, `*delta -= 1` in remove_after, `removed.delta() - 1` in
\* remove_right.
C25_SpansPositive ==
    /\ SpansPositive(heap)
    /\ last.err # "underflow"
    /\ \A i \in 0..size :
          /\ i < size =>
                LET r == remove(variant, Self, i)
                IN r.err # "underflow" /\ SpansPositive(r.list.heap)
          /\ size < MaxSize =>
                \A coins \in Coins :
                    LET r == insert(variant, Self, i, 1, coins)
                    IN /\ r.err # "underflow" /\ SpansPositive(r.list.heap)
                       /\ r.list.size - (i + 1) >= 0

C25_Witness ==
    /\ last.op = "pop_front" /\ last.err = "none"
    /\ Lanes(heap, entry) = MaxLanes /\ size = MaxSize - 1
    /\ \E n \in NodeIds : heap[n].kind = "I" /\ heap[n].delta = 1 /\ heap[n].right = 0
    /\ \E n \in NodeIds : heap[n].kind = "S" /\ heap[n].down # 0 /\ heap[n].delta = 1

\* C26: in skip_linked_list.rs pop_back() on an empty list returns None and
\* leaves the list unchanged, like pop_front(), in every build, and does not
\* evaluate `size - 1` below zero.
C26_PopBackEmpty ==
    (variant = "cli" /\ size = 0) =>
        \A build \in Builds :
            LET r == pop_back(variant, build, Self)
            IN /\ ~r.some /\ ~r.panic
               /\ r.err # "underflow"
               /\ r.list = Self
               /\ r.some = pop_front(variant, Self).some
               /\ r.panic = pop_front(variant, Self).panic

\* C27: for every i <= len() and every coin outcome, insert(i, v) followed by
\* remove(i) restores, on every lane that existed before the insert, exactly
\* the previous chain of nodes and every previous span; if the insert added a
\* lane, the only difference is that new top lane, left as a lone sentinel with
\* span len() + 1 above the previous top sentinel.
C27_InsertRemoveRestores ==
    \A i \in 0..size, coins \in Coins :
        size < MaxSize =>
            LET a == insert(variant, Self, i, 1, coins)
                b == remove(variant, a.list, i)
                h2 == b.list.heap
                grew == a.list.entry # entry
            IN /\ a.err = "none" /\ b.err = "none"
               /\ b.list.size = size
               /\ b.list.entry = a.list.entry
               /\ \A k \in 0..(Lanes(heap, entry) - 1) :
                     LET q == Lane(heap, entry, k)
                     IN /\ Chain(h2, q[1]) = q
                        /\ \A c \in 1..Len(q) : h2[q[c]] = heap[q[c]]
               /\ ~grew => h2 = heap
               /\ grew => /\ heap[b.list.entry].kind = "free"
                          /\ h2 = [heap EXCEPT ![b.list.entry] = Sentinel(0, entry, size + 1)]

C27_Witness ==
    /\ last.op = "pop_front" /\ last.undo
    /\ EmptyTop(Self) /\ heap[entry].delta = size + 1
    /\ Lanes(heap, entry) = MaxLanes /\ size = MaxSize - 1
    /\ Len(Lane(heap, entry, 1)) >= 2

(* ------------------------------ sanity --------------------------------- *)
TypeOK ==
    /\ size \in 0..MaxSize
    /\ entry \in NodeIds
    /\ heap[entry].kind = "S"

====
